---- MODULE Spec2Model ----
(***************************************************************************)
(* Job lifecycle and credit ledger of sm_up_api.                           *)
(*                                                                         *)
(* The database holds three tables: users (the cached balance and the     *)
(* purchased / used totals), credit_transactions (the ledger) and          *)
(* processing_jobs.  Every service call runs in a SQLAlchemy session: it   *)
(* SELECTs a row, changes attributes of the loaded object in Python and    *)
(* commit() writes the changed columns back as absolute values.  No row    *)
(* is locked (no SELECT ... FOR UPDATE, no version column), so between the *)
(* SELECT and the commit of one session another session may commit.        *)
(*                                                                         *)
(* A ledger call that races is therefore two steps, the load and the       *)
(* commit.  A write to a processing_jobs row (update_job_status, the       *)
(* cancel) loads, assigns and commits in one step.                         *)
(*                                                                         *)
(* LedgerSpec runs the ledger operations one at a time (each call returns  *)
(* before the next starts).  RaceSpec runs admission requests, a purchase  *)
(* and cancels concurrently on one account.  Spec runs the whole service   *)
(* around one request: admission, cancel, the Celery worker with retries   *)
(* and redelivery, the hard time limit and the webhooks it schedules.       *)
(* FairSpec is Spec with a worker that keeps running.                      *)
(* NotifySpec is Spec with the scheduled notification tasks run too.       *)
(* AccessSpec has a second account read and cancel the first one's job.    *)
(* CostSpec calls the cost estimate on every kind of input, SweepSpec runs *)
(* the retention sweep over the job directories.  RateSpec runs            *)
(* concurrent check_rate_limit calls of several server processes on one    *)
(* key.                                                                    *)
(***************************************************************************)
EXTENDS Integers, Sequences, FiniteSets, TLC

\* ------------------------------------------------------------------ bounds
MaxAmount == 2          \* largest amount a ledger call is made with (LedgerSpec)
MaxTx == 3              \* ledger entries written in one LedgerSpec run
MaxImages == 2          \* images in one processing request

MaxCredits == 10        \* largest credits a test user is created with (LedgerSpec)

UserIds == {"u1", "u2"}
JobIds == {"j1", "j2"}
\* amount: int is not validated by the callers (add_test_credits): negative and
\* zero amounts are inputs too.
Amounts == {0 - 1, 0} \cup (1..MaxAmount)
CreditChoices == {0, 1, MaxCredits}

TestCredits == 4        \* credits the requesting account is created with (Spec)
MaxRedeliveries == 1    \* redeliveries of one task after a lost worker (Spec)

RateLimit == 2          \* limit of the rate-limit key (RateSpec)
WindowSeconds == 3      \* window_seconds of the rate-limit key (RateSpec)
MaxClock == 3           \* seconds the clock runs for (RateSpec)

\* process_images_task: self.retry(..., max_retries=3).
max_retries == 3

\* The authenticated user of the request that creates job j: the requests of
\* one account.
Requester(j) == "u1"

VARIABLES
    users,          \* users table: user id -> row
    transactions,   \* credit_transactions table, in commit order
    ret,            \* what the last ledger call was and what it returned
    jobs,           \* processing_jobs table: job id -> row
    tasks,          \* the broker's process_images_task message of each job
    req,            \* each process_images request: where it is, what it loaded
    pur,            \* an add_credits call racing with the requests
    response,       \* the last response of DELETE /images/jobs/{job_id}
    webhooks,       \* job id -> the statuses send_webhook_notification was
                    \* scheduled with, in order
    status_response,\* the last GET /images/status/{job_id}: who asked for
                    \* which job and the response
    notifier,       \* the send_webhook_notification tasks that ran
    estimate,       \* the last calculate_cost call and what it returned
    storage,        \* the job directories under storage_path/jobs
    limiter         \* one rate-limit key in Redis, the clock and the
                    \* check_rate_limit calls for that key

\* What only the status endpoint, the notifier, the cost estimate, the
\* retention sweep and the rate limiter write.
otherVars == <<status_response, notifier, estimate, storage, limiter>>
serviceVars == <<jobs, tasks, req, pur, response, webhooks, otherVars>>
vars ==
    <<users, transactions, ret, jobs, tasks, req, pur, response, webhooks,
      otherVars>>

\* ------------------------------------------------------------- users table
NoUser ==
    [exists |-> FALSE, credits_balance |-> 0,
     total_credits_purchased |-> 0, total_credits_used |-> 0]

\* commit(): the UPDATE carries the columns whose value the session changed
\* since it loaded the row (seen), as absolute values; the other columns keep
\* what the table holds now.
Flush(row, seen, new) ==
    [f \in DOMAIN row |-> IF new[f] # seen[f] THEN new[f] ELSE row[f]]

CreditTransaction(u, amount, type, description, before, after) ==
    [user_id |-> u, amount |-> amount, transaction_type |-> type,
     description |-> description,
     balance_before |-> before, balance_after |-> after]

\* ----------------------------------------------------- CreditService (rows)
\* check_and_reserve_credits, line 105: the sufficiency check.
Insufficient_NoCheck(seen, required_credits) == FALSE
Insufficient_OffByOne(seen, required_credits) ==
    seen.credits_balance <= required_credits
Insufficient(seen, required_credits) ==
    seen.credits_balance < required_credits

\* check_and_reserve_credits, lines 110-112: the row after the debit.
ReservedRow(seen, required_credits) ==
    [seen EXCEPT !.credits_balance = @ - required_credits,
                 !.total_credits_used = @ + required_credits]

\* refund_credits, lines 155-157.
RefundedRow_KeepUsed(seen, amount) ==
    [seen EXCEPT !.credits_balance = @ + amount]
RefundedRow(seen, amount) ==
    [seen EXCEPT !.credits_balance = @ + amount,
                 !.total_credits_used = @ - amount]

\* add_credits, lines 201-203.
PurchasedRow(seen, amount) ==
    [seen EXCEPT !.credits_balance = @ + amount,
                 !.total_credits_purchased = @ + amount]

\* The write half of check_and_reserve_credits (lines 109-127) by a session
\* that loaded the row as seen.
ReserveCommit(u, seen, required_credits) ==
    /\ users' = [users EXCEPT
                   ![u] = Flush(@, seen, ReservedRow(seen, required_credits))]
    /\ transactions' = Append(transactions,
           CreditTransaction(u, 0 - required_credits, "usage", "reserved",
               seen.credits_balance,
               ReservedRow(seen, required_credits).credits_balance))

\* The write half of refund_credits (lines 155-172).
RefundCommit(u, seen, amount, reason) ==
    /\ users' = [users EXCEPT
                   ![u] = Flush(@, seen, RefundedRow(seen, amount))]
    /\ transactions' = Append(transactions,
           CreditTransaction(u, amount, "refund", reason,
               seen.credits_balance,
               RefundedRow(seen, amount).credits_balance))

PurchaseCommit_NoFilter(u, seen, amount) ==
    /\ users' = [v \in UserIds |->
           IF users[v].exists THEN PurchasedRow(users[v], amount) ELSE users[v]]
    /\ transactions' = Append(transactions,
           CreditTransaction(u, amount, "purchase", "purchased",
               seen.credits_balance,
               PurchasedRow(seen, amount).credits_balance))

\* The write half of add_credits (lines 201-221).
PurchaseCommit(u, seen, amount) ==
    /\ users' = [users EXCEPT
                   ![u] = Flush(@, seen, PurchasedRow(seen, amount))]
    /\ transactions' = Append(transactions,
           CreditTransaction(u, amount, "purchase", "purchased",
               seen.credits_balance,
               PurchasedRow(seen, amount).credits_balance))

\* create_test_user: the user row and its initial bonus transaction.
InsertTestUser(u, credits) ==
    /\ users' = [users EXCEPT ![u] =
           [exists |-> TRUE, credits_balance |-> credits,
            total_credits_purchased |-> credits, total_credits_used |-> 0]]
    /\ transactions' = Append(transactions,
           CreditTransaction(u, credits, "bonus", "initial", 0, credits))

\* ------------------------------------------- ledger calls, one at a time
Call(op, u, amount, reason, ok) ==
    [op |-> op, user_id |-> u, amount |-> amount, reason |-> reason, ok |-> ok]

create_test_user(u, credits) ==
    /\ ~users[u].exists
    /\ Len(transactions) < MaxTx
    /\ InsertTestUser(u, credits)
    /\ ret' = Call("create", u, credits, "initial", TRUE)
    /\ UNCHANGED serviceVars

check_and_reserve_credits(u, required_credits) ==
    /\ Len(transactions) < MaxTx
    /\ IF ~users[u].exists \/ Insufficient(users[u], required_credits)
       THEN /\ UNCHANGED <<users, transactions>>
            /\ ret' = Call("reserve", u, required_credits, "reserved", FALSE)
       ELSE /\ ReserveCommit(u, users[u], required_credits)
            /\ ret' = Call("reserve", u, required_credits, "reserved", TRUE)
    /\ UNCHANGED serviceVars

refund_credits(u, amount, reason) ==
    /\ Len(transactions) < MaxTx
    /\ IF ~users[u].exists
       THEN /\ UNCHANGED <<users, transactions>>
            /\ ret' = Call("refund", u, amount, reason, FALSE)
       ELSE /\ RefundCommit(u, users[u], amount, reason)
            /\ ret' = Call("refund", u, amount, reason, TRUE)
    /\ UNCHANGED serviceVars

add_credits(u, amount) ==
    /\ Len(transactions) < MaxTx
    /\ IF ~users[u].exists
       THEN /\ UNCHANGED <<users, transactions>>
            /\ ret' = Call("purchase", u, amount, "purchased", FALSE)
       ELSE /\ PurchaseCommit(u, users[u], amount)
            /\ ret' = Call("purchase", u, amount, "purchased", TRUE)
    /\ UNCHANGED serviceVars

\* ------------------------------------------------------ processing_jobs
NoJob ==
    [exists |-> FALSE, user_id |-> "u1", status |-> "queued", progress |-> 0,
     credits_used |-> 0, started_at |-> 0, completed_at |-> 0,
     error_message |-> "", output_images |-> 0]

\* Python's None; as a steps or guidance_scale value, a value that is no
\* number.
None == 0 - 1

\* ImageService.update_job_status (lines 127-147) on the loaded row: the
\* status is assigned whatever the row's status is.  progress None leaves the
\* stored progress; a timestamp of 0 is NULL; output_images is the number of
\* result urls (an empty list attaches nothing).
update_job_status_NoTimestamp(job, status, progress, error_message, output_images, now) ==
    [job EXCEPT
        !.status = status,
        !.progress = IF status = "completed" THEN 100
                     ELSE IF progress # None THEN progress ELSE @,
        !.started_at = IF status = "processing" /\ @ = 0 THEN now ELSE @,
        !.error_message = IF error_message # "" THEN error_message ELSE @,
        !.output_images = IF output_images # 0 THEN output_images ELSE @]

update_job_status_NoError(job, status, progress, error_message, output_images, now) ==
    [job EXCEPT
        !.status = status,
        !.progress = IF status = "completed" THEN 100
                     ELSE IF progress # None THEN progress ELSE @,
        !.started_at = IF status = "processing" /\ @ = 0 THEN now ELSE @,
        !.completed_at = IF status \in {"completed", "failed"} THEN now ELSE @,
        !.output_images = IF output_images # 0 THEN output_images ELSE @]
update_job_status(job, status, progress, error_message, output_images, now) ==
    [job EXCEPT
        !.status = status,
        !.progress = IF status = "completed" THEN 100
                     ELSE IF progress # None THEN progress ELSE @,
        !.started_at = IF status = "processing" /\ @ = 0 THEN now ELSE @,
        !.completed_at = IF status \in {"completed", "failed"} THEN now ELSE @,
        !.error_message = IF error_message # "" THEN error_message ELSE @,
        !.output_images = IF output_images # 0 THEN output_images ELSE @]

\* ------------------------------------------------------------ cost estimate
\* Settings.credit_costs (config.py lines 83-89).
credit_costs ==
    [k \in {"enhance_low", "enhance_medium", "enhance_high",
            "upscale_2x", "upscale_4x"} |->
        CASE k = "enhance_low" -> 1
          [] k = "enhance_medium" -> 2
          [] k = "enhance_high" -> 3
          [] k = "upscale_2x" -> 2
          [] k = "upscale_4x" -> 4]

\* f"enhance_{quality}" and f"upscale_{upscale_factor}x": the key looked up.
CostKey(operation, parameters) ==
    IF operation = "enhance"
    THEN CASE parameters.quality = "low" -> "enhance_low"
           [] parameters.quality = "medium" -> "enhance_medium"
           [] parameters.quality = "high" -> "enhance_high"
           [] OTHER -> "enhance_other"
    ELSE CASE parameters.upscale_factor = 2 -> "upscale_2x"
           [] parameters.upscale_factor = 4 -> "upscale_4x"
           [] OTHER -> "upscale_other"

\* The parameters of a request that sets none: quality medium, factor 2,
\* 20 steps, guidance_scale 7.5 (kept in tenths).
DefaultParameters ==
    [quality |-> "medium", upscale_factor |-> 2, steps |-> 20,
     guidance_scale |-> 75]

\* The estimate with the multipliers applied to the total and one rounding.
calculate_cost_RoundsOnce(operation, parameters, image_count) ==
    LET looked == IF operation \in {"enhance", "upscale"}
                  THEN IF CostKey(operation, parameters) \in DOMAIN credit_costs
                       THEN credit_costs[CostKey(operation, parameters)]
                       ELSE 2
                  ELSE 1
        num == (IF parameters.steps > 50 THEN 3 ELSE 1)
               * (IF parameters.guidance_scale > 150 THEN 6 ELSE 1)
        den == (IF parameters.steps > 50 THEN 2 ELSE 1)
               * (IF parameters.guidance_scale > 150 THEN 5 ELSE 1)
    IN  IF parameters.steps = None \/ parameters.guidance_scale = None
        THEN 2 * image_count
        ELSE (looked * num * image_count) \div den

\* The estimate with the base cost of an operation that is neither enhance
\* nor upscale taken as 2.
calculate_cost_DefaultTwo(operation, parameters, image_count) ==
    LET looked == IF CostKey(operation, parameters) \in DOMAIN credit_costs
                       /\ operation \in {"enhance", "upscale"}
                  THEN credit_costs[CostKey(operation, parameters)]
                  ELSE 2
        stepped == IF parameters.steps > 50 THEN (looked * 3) \div 2 ELSE looked
        guided == IF parameters.guidance_scale > 150
                  THEN (stepped * 6) \div 5 ELSE stepped
    IN  IF parameters.steps = None \/ parameters.guidance_scale = None
        THEN 2 * image_count
        ELSE guided * image_count

\* CreditService.calculate_cost lines 39-64.  int(x * 1.5) and int(x * 1.2)
\* of a positive integer x are (3x) div 2 and (6x) div 5.  A steps or
\* guidance_scale value that is no number is None: the comparison raises
\* TypeError and the except branch returns 2 * image_count.
calculate_cost(operation, parameters, image_count) ==
    LET looked == IF operation \in {"enhance", "upscale"}
                  THEN IF CostKey(operation, parameters) \in DOMAIN credit_costs
                       THEN credit_costs[CostKey(operation, parameters)]
                       ELSE 2
                  ELSE 1
        stepped == IF parameters.steps > 50 THEN (looked * 3) \div 2 ELSE looked
        guided == IF parameters.guidance_scale > 150
                  THEN (stepped * 6) \div 5 ELSE stepped
    IN  IF parameters.steps = None \/ parameters.guidance_scale = None
        THEN 2 * image_count
        ELSE guided * image_count

\* The inputs calculate_cost is called with: an operation outside the table,
\* a quality and a factor outside it, steps and guidance_scale (in tenths)
\* at and across the thresholds, and values that are no numbers.
Operations == {"enhance", "upscale", "denoise"}
Qualities == {"low", "medium", "high", "ultra"}
Factors == {2, 3, 4}
StepChoices == {20, 50, 51, None}
GuidanceChoices == {75, 150, 151, None}
ParameterChoices ==
    [quality : Qualities, upscale_factor : Factors, steps : StepChoices,
     guidance_scale : GuidanceChoices]

NoEstimate ==
    [called |-> FALSE, operation |-> "enhance", parameters |-> DefaultParameters,
     image_count |-> 0, total_cost |-> 0]

\* One call of calculate_cost (process_images lines 59-64) and its result.
calculate_cost_call(operation, parameters, image_count) ==
    /\ ~estimate.called
    /\ estimate' =
           [called |-> TRUE, operation |-> operation, parameters |-> parameters,
            image_count |-> image_count,
            total_cost |-> calculate_cost(operation, parameters, image_count)]
    /\ UNCHANGED <<users, transactions, ret, jobs, tasks, req, pur, response,
                   webhooks, status_response, notifier, storage, limiter>>

\* ------------------------------------------------- POST /images/process
\* callback_url is whether the request carries one; tx is the place, in commit
\* order, of the usage transaction the request inserted (0: none).
NoRequest ==
    [pc |-> "idle", image_count |-> 0, callback_url |-> FALSE, cost |-> 0,
     seen |-> NoUser, tx |-> 0]

\* lines 59-64 and check_and_reserve_credits line 100: the cost is computed
\* and the session loads the account row.
process_images_load(j, image_count, callback_url) ==
    /\ req[j].pc = "idle"
    /\ users[Requester(j)].exists
    /\ req' = [req EXCEPT ![j] =
           [pc |-> "loaded", image_count |-> image_count,
            callback_url |-> callback_url,
            cost |-> calculate_cost("enhance", DefaultParameters, image_count),
            seen |-> users[Requester(j)], tx |-> 0]]
    /\ UNCHANGED <<users, transactions, ret, jobs, tasks, pur, response,
                   webhooks, otherVars>>

process_images_reserve_IgnoresResult(j) ==
    /\ req[j].pc = "loaded"
    /\ IF Insufficient(req[j].seen, req[j].cost)
       THEN /\ req' = [req EXCEPT ![j].pc = "reserved"]
            /\ UNCHANGED <<users, transactions>>
       ELSE /\ ReserveCommit(Requester(j), req[j].seen, req[j].cost)
            /\ req' = [req EXCEPT ![j].pc = "reserved",
                                  ![j].tx = Len(transactions) + 1]
    /\ UNCHANGED <<ret, jobs, tasks, pur, response, webhooks, otherVars>>

\* check_and_reserve_credits lines 105-130 and process_images lines 69-73: on
\* the loaded row, either InsufficientCreditsError or the debit is committed.
process_images_reserve(j) ==
    /\ req[j].pc = "loaded"
    /\ IF Insufficient(req[j].seen, req[j].cost)
       THEN /\ req' = [req EXCEPT ![j].pc = "rejected"]
            /\ UNCHANGED <<users, transactions>>
       ELSE /\ ReserveCommit(Requester(j), req[j].seen, req[j].cost)
            /\ req' = [req EXCEPT ![j].pc = "reserved",
                                  ![j].tx = Len(transactions) + 1]
    /\ UNCHANGED <<ret, jobs, tasks, pur, response, webhooks, otherVars>>

\* ImageService.create_job lines 57-76.
process_images_create_job(j) ==
    /\ req[j].pc = "reserved"
    /\ jobs' = [jobs EXCEPT ![j] =
           [NoJob EXCEPT !.exists = TRUE, !.user_id = Requester(j),
                         !.status = "queued", !.progress = 0,
                         !.credits_used = req[j].cost]]
    /\ req' = [req EXCEPT ![j].pc = "created"]
    /\ UNCHANGED <<users, transactions, ret, tasks, pur, response,
                   webhooks, otherVars>>

\* ImageService.create_job lines 78-81: the insert fails, the request ends
\* with ImageProcessingError.
process_images_create_job_error(j) ==
    /\ req[j].pc = "reserved"
    /\ req' = [req EXCEPT ![j].pc = "error"]
    /\ UNCHANGED <<users, transactions, ret, jobs, tasks, pur, response,
                   webhooks, otherVars>>

\* ImageService.queue_processing_job, the background task of the request:
\* the message reaches the broker.
queue_processing_job(j) ==
    /\ req[j].pc = "created"
    /\ tasks' = [tasks EXCEPT ![j].state = "pending"]
    /\ req' = [req EXCEPT ![j].pc = "done"]
    /\ UNCHANGED <<users, transactions, ret, jobs, pur, response,
                   webhooks, otherVars>>

queue_processing_job_error_NoMessage(j) ==
    /\ req[j].pc = "created"
    /\ jobs' = [jobs EXCEPT ![j] =
           update_job_status(@, "failed", None, "", 0, 1)]
    /\ req' = [req EXCEPT ![j].pc = "done"]
    /\ UNCHANGED <<users, transactions, ret, tasks, pur, response,
                   webhooks, otherVars>>

\* queue_processing_job lines 96-99: delay() raises, the job is set failed.
queue_processing_job_error(j) ==
    /\ req[j].pc = "created"
    /\ jobs' = [jobs EXCEPT ![j] =
           update_job_status(@, "failed", None, "Failed to queue job", 0, 1)]
    /\ req' = [req EXCEPT ![j].pc = "done"]
    /\ UNCHANGED <<users, transactions, ret, tasks, pur, response,
                   webhooks, otherVars>>

\* ------------------------------------- add_credits racing with requests
NoPurchase == [pc |-> "idle", amount |-> 0, seen |-> NoUser]

\* add_credits line 196: the session loads the account row.
add_credits_load(u, amount) ==
    /\ pur.pc = "idle"
    /\ users[u].exists
    /\ pur' = [pc |-> "loaded", amount |-> amount, seen |-> users[u]]
    /\ UNCHANGED <<users, transactions, ret, jobs, tasks, req, response,
                   webhooks, otherVars>>

\* add_credits lines 201-221: the credit is committed on the loaded row.
add_credits_commit(u) ==
    /\ pur.pc = "loaded"
    /\ PurchaseCommit(u, pur.seen, pur.amount)
    /\ pur' = [pur EXCEPT !.pc = "done"]
    /\ UNCHANGED <<ret, jobs, tasks, req, response, webhooks, otherVars>>

\* ------------------------------------------- DELETE /images/jobs/{job_id}
cancel_job_NoOwnerFilter(u, j) ==
    /\ users[u].exists
    /\ IF ~jobs[j].exists
       THEN /\ response' = [user_id |-> u, job_id |-> j, code |-> 404]
            /\ UNCHANGED <<users, transactions, ret, jobs, tasks, req, pur,
                           webhooks, otherVars>>
       ELSE IF jobs[j].status \in {"completed", "failed", "cancelled"}
       THEN /\ response' = [user_id |-> u, job_id |-> j, code |-> 500]
            /\ UNCHANGED <<users, transactions, ret, jobs, tasks, req, pur,
                           webhooks, otherVars>>
       ELSE /\ jobs' = [jobs EXCEPT ![j].status = "cancelled"]
            /\ response' = [user_id |-> u, job_id |-> j, code |-> 200]
            /\ UNCHANGED <<users, transactions, ret, tasks, req, pur,
                           webhooks, otherVars>>

\* cancel_job lines 254-285 by the authenticated user u: the query is
\* filtered by id and owner; no row, JobNotFoundError (404).
cancel_job(u, j) ==
    /\ users[u].exists
    /\ IF ~(jobs[j].exists /\ jobs[j].user_id = u)
       THEN /\ response' = [user_id |-> u, job_id |-> j, code |-> 404]
            /\ UNCHANGED <<users, transactions, ret, jobs, tasks, req, pur,
                           webhooks, otherVars>>
       ELSE IF jobs[j].status \in {"completed", "failed", "cancelled"}
       THEN /\ response' = [user_id |-> u, job_id |-> j, code |-> 500]
            /\ UNCHANGED <<users, transactions, ret, jobs, tasks, req, pur,
                           webhooks, otherVars>>
       ELSE LET job == [jobs[j] EXCEPT !.status = "cancelled"]
            IN  /\ jobs' = [jobs EXCEPT ![j] = job]
                /\ IF job.status = "queued"
                   THEN RefundCommit(u, users[u], job.credits_used, j)
                   ELSE UNCHANGED <<users, transactions>>
                /\ response' = [user_id |-> u, job_id |-> j, code |-> 200]
                /\ UNCHANGED <<ret, tasks, req, pur, webhooks, otherVars>>

\* ------------------------------------------- GET /images/status/{job_id}
\* JobNotFoundError (exceptions.py lines 95-104): the response body of the
\* exception handler.  details is the text around the job id it quotes.
JobNotFoundError(job_id) ==
    [code |-> 404, error_code |-> "JOB_NOT_FOUND", message |-> "Job not found",
     details |-> "does not exist or you don't have access to it",
     details_job_id |-> job_id]

\* JobStatusResponse of a job row (lines 146-163): result_urls only of a
\* completed job with outputs, error_message only of a failed job with one.
JobStatusResponse(job_id, job) ==
    [code |-> 200, job_id |-> job_id, status |-> job.status,
     progress |-> job.progress, started_at |-> job.started_at,
     completed_at |-> job.completed_at,
     result_urls |-> IF job.status = "completed" THEN job.output_images ELSE 0,
     error_message |-> IF job.status = "failed" THEN job.error_message ELSE ""]

NoStatusResponse == [user_id |-> "u1", job_id |-> "j1", body |-> [code |-> 0]]

get_job_status_Forbidden(u, j) ==
    /\ users[u].exists
    /\ status_response' =
           [user_id |-> u, job_id |-> j,
            body |-> IF ~jobs[j].exists THEN JobNotFoundError(j)
                     ELSE IF jobs[j].user_id # u
                     THEN [code |-> 403, error_code |-> "FORBIDDEN",
                           message |-> "Access denied", details |-> "",
                           details_job_id |-> j]
                     ELSE JobStatusResponse(j, jobs[j])]
    /\ UNCHANGED <<users, transactions, ret, jobs, tasks, req, pur, response,
                   webhooks, notifier, estimate, storage, limiter>>

\* get_job_status lines 135-163 by the authenticated user u: one query
\* filtered by id and owner; no row, JobNotFoundError.
get_job_status(u, j) ==
    /\ users[u].exists
    /\ status_response' =
           [user_id |-> u, job_id |-> j,
            body |-> IF jobs[j].exists /\ jobs[j].user_id = u
                     THEN JobStatusResponse(j, jobs[j])
                     ELSE JobNotFoundError(j)]
    /\ UNCHANGED <<users, transactions, ret, jobs, tasks, req, pur, response,
                   webhooks, notifier, estimate, storage, limiter>>

\* ------------------------------------------------ process_images_task
\* state: none, pending (in the broker), running (delivered, not acknowledged),
\* acked (returned), dead (the retries are used up, the error was raised) or
\* lost (acknowledged on the hard time limit).  retries is the message's
\* retries header, failed the number of executions that ended in the except
\* block.
NoTask == [state |-> "none", retries |-> 0, redelivered |-> 0,
           step |-> "begin", done |-> 0, failed |-> 0]

\* self.retry(exc=e, countdown=60, max_retries=3), line 383: Task.retry
\* publishes the task again unless request.retries + 1 > max_retries.
CanRetry_OneMore(retries) == retries <= max_retries
CanRetry(retries) == retries < max_retries

\* Lines 358-360 and 378-380: send_webhook_notification.delay(job_id,
\* callback_url, status) when the request carries a callback_url.
Notified(j, status) ==
    IF req[j].callback_url
    THEN [webhooks EXCEPT ![j] = Append(@, status)]
    ELSE webhooks

\* The time of a write made by the running delivery of j's task.
Now(j) == tasks[j].retries + tasks[j].redelivered + 1

\* One worker slot (worker_prefetch_multiplier=1): a pending message is
\* delivered when no task runs.  Lines 292-302.
process_images_task_begin(j) ==
    /\ tasks[j].state = "pending"
    /\ \A k \in JobIds : tasks[k].state # "running"
    /\ tasks' = [tasks EXCEPT ![j].state = "running",
                              ![j].step = "begin", ![j].done = 0]
    /\ UNCHANGED <<users, transactions, ret, jobs, req, pur, response,
                   webhooks, otherVars>>

\* Line 305: update_job_status(job_id, "processing", progress=0).
process_images_task_processing(j) ==
    /\ tasks[j].state = "running" /\ tasks[j].step = "begin"
    /\ jobs' = [jobs EXCEPT ![j] =
           update_job_status(@, "processing", 0, "", 0, Now(j))]
    /\ tasks' = [tasks EXCEPT ![j].step = "loop"]
    /\ UNCHANGED <<users, transactions, ret, req, pur, response,
                   webhooks, otherVars>>

\* Lines 316-333: one image is processed, the progress is stored.
process_images_task_progress(j) ==
    /\ tasks[j].state = "running" /\ tasks[j].step = "loop"
    /\ tasks[j].done < req[j].image_count
    /\ jobs' = [jobs EXCEPT ![j] =
           update_job_status(@, "processing",
               ((tasks[j].done + 1) * 90) \div req[j].image_count, "", 0, Now(j))]
    /\ tasks' = [tasks EXCEPT ![j].done = @ + 1]
    /\ UNCHANGED <<users, transactions, ret, req, pur, response,
                   webhooks, otherVars>>

\* Lines 339-353: the outputs are saved and the job is set completed.
process_images_task_complete(j) ==
    /\ tasks[j].state = "running" /\ tasks[j].step = "loop"
    /\ tasks[j].done = req[j].image_count
    /\ jobs' = [jobs EXCEPT ![j] =
           update_job_status(@, "completed", 100, "", req[j].image_count, Now(j))]
    /\ tasks' = [tasks EXCEPT ![j].step = "completed"]
    /\ UNCHANGED <<users, transactions, ret, req, pur, response, webhooks,
                   otherVars>>

\* Lines 356-363: the "completed" webhook and the cleanup are scheduled.
process_images_task_notify(j) ==
    /\ tasks[j].state = "running" /\ tasks[j].step = "completed"
    /\ webhooks' = Notified(j, "completed")
    /\ tasks' = [tasks EXCEPT ![j].step = "notified"]
    /\ UNCHANGED <<users, transactions, ret, jobs, req, pur, response,
                   otherVars>>

\* The task returns and, task_acks_late, its message is acknowledged.
process_images_task_ack(j) ==
    /\ tasks[j].state = "running" /\ tasks[j].step = "notified"
    /\ tasks' = [tasks EXCEPT ![j].state = "acked"]
    /\ UNCHANGED <<users, transactions, ret, jobs, req, pur, response,
                   webhooks, otherVars>>

process_images_task_except_Refunds(j) ==
    /\ tasks[j].state = "running" /\ tasks[j].step # "notified"
    /\ jobs' = [jobs EXCEPT ![j] =
           update_job_status(@, "failed", None, "Processing failed", 0, Now(j))]
    /\ webhooks' = Notified(j, "failed")
    /\ tasks' = [tasks EXCEPT
           ![j].state = IF CanRetry(tasks[j].retries) THEN "pending" ELSE "dead",
           ![j].retries = IF CanRetry(tasks[j].retries) THEN @ + 1 ELSE @,
           ![j].failed = @ + 1]
    /\ IF CanRetry(tasks[j].retries)
       THEN UNCHANGED <<users, transactions>>
       ELSE RefundCommit(jobs[j].user_id, users[jobs[j].user_id],
                         jobs[j].credits_used, j)
    /\ UNCHANGED <<ret, req, pur, response, otherVars>>

\* Lines 365-383: a statement of the try block raises (an error of the
\* processor, of a delay() or SoftTimeLimitExceeded at the soft time limit); the job is set failed,
\* the webhook is scheduled and self.retry either publishes the task again
\* or, with the retries used up, raises the error and the message is dropped.
process_images_task_except(j) ==
    /\ tasks[j].state = "running" /\ tasks[j].step # "notified"
    /\ jobs' = [jobs EXCEPT ![j] =
           update_job_status(@, "failed", None, "Processing failed", 0, Now(j))]
    /\ webhooks' = Notified(j, "failed")
    /\ tasks' = [tasks EXCEPT
           ![j].state = IF CanRetry(tasks[j].retries) THEN "pending" ELSE "dead",
           ![j].retries = IF CanRetry(tasks[j].retries) THEN @ + 1 ELSE @,
           ![j].failed = @ + 1]
    /\ UNCHANGED <<users, transactions, ret, req, pur, response, otherVars>>

\* task_time_limit=600 (celery_app.py line 45): at the hard time limit the
\* pool process running the task is killed, so neither the except block nor
\* the finally block runs; the worker marks the task failed and, the task
\* being acks_late, acknowledges the message.  Nothing is published again.
process_images_task_time_limit(j) ==
    /\ tasks[j].state = "running"
    /\ tasks' = [tasks EXCEPT ![j].state = "lost"]
    /\ UNCHANGED <<users, transactions, ret, jobs, req, pur, response,
                   webhooks, otherVars>>

\* task_acks_late: the worker is lost before the message is acknowledged and
\* the broker delivers the message again.
process_images_task_redeliver(j) ==
    /\ tasks[j].state = "running"
    /\ tasks[j].redelivered < MaxRedeliveries
    /\ tasks' = [tasks EXCEPT ![j].state = "pending",
                              ![j].redelivered = @ + 1]
    /\ UNCHANGED <<users, transactions, ret, jobs, req, pur, response,
                   webhooks, otherVars>>

\* -------------------------------------------- send_webhook_notification
\* What the POST to the callback url does: a 2xx response, a transport
\* error, a timeout (httpx.Client(timeout=30)) or a non-2xx response
\* (raise_for_status).
Outcomes == {"delivered", "transport_error", "timeout", "http_error"}

\* ran: the notification tasks of each job that ran; outcome and raised: the
\* last one's POST and whether the task ended with an exception.
NoNotifier ==
    [ran |-> [j \in JobIds |-> 0], outcome |-> "none", raised |-> FALSE]

send_webhook_notification_Raises(j, outcome) ==
    /\ notifier.ran[j] < Len(webhooks[j])
    /\ notifier' = [ran |-> [notifier.ran EXCEPT ![j] = @ + 1],
                    outcome |-> outcome, raised |-> outcome # "delivered"]
    /\ UNCHANGED <<users, transactions, ret, jobs, tasks, req, pur, response,
                   webhooks, status_response, estimate, storage, limiter>>

\* send_webhook_notification lines 421-438, the next scheduled notification
\* of job j: the POST and raise_for_status are inside try / except Exception,
\* which logs; the task opens no database session.
send_webhook_notification(j, outcome) ==
    /\ notifier.ran[j] < Len(webhooks[j])
    /\ notifier' = [ran |-> [notifier.ran EXCEPT ![j] = @ + 1],
                    outcome |-> outcome, raised |-> FALSE]
    /\ UNCHANGED <<users, transactions, ret, jobs, tasks, req, pur, response,
                   webhooks, status_response, estimate, storage, limiter>>

\* ------------------------------------------------ cleanup_old_job_files
\* The directories storage_path/jobs can hold.
JobDirs == {"d1", "d2", "d3"}

\* old: the modification time is more than 7 days back.  fault: what raises
\* on the directory, its stat() ("stat"), its shutil.rmtree ("rmtree") or
\* nothing ("none").
NoDir == [exists |-> FALSE, old |-> FALSE, fault |-> "none"]
Faults == {"none", "stat", "rmtree"}

\* save_output_images lines 252-253: job_dir.mkdir(parents=True).
mkdir(d) ==
    /\ ~storage[d].exists
    /\ storage' = [storage EXCEPT ![d] = [NoDir EXCEPT !.exists = TRUE]]
    /\ UNCHANGED <<users, transactions, ret, jobs, tasks, req, pur, response,
                   webhooks, status_response, notifier, estimate,
                   limiter>>

\* Seven days pass over a directory (the cutoff_date of line 445); by then
\* the file system lets it be inspected and removed or not.
directory_ages(d, fault) ==
    /\ storage[d].exists /\ ~storage[d].old
    /\ storage' = [storage EXCEPT ![d].old = TRUE, ![d].fault = fault]
    /\ UNCHANGED <<users, transactions, ret, jobs, tasks, req, pur, response,
                   webhooks, status_response, notifier, estimate,
                   limiter>>

\* The orders storage_path.iterdir() can yield the directories in.
Orders(dirs) ==
    {o \in [1..Cardinality(dirs) -> dirs] :
        \A i, k \in 1..Cardinality(dirs) : i # k => o[i] # o[k]}

AllOrders == UNION {Orders(dirs) : dirs \in SUBSET JobDirs}

RECURSIVE Sweep(_, _)
\* Lines 447-454, the loop over the directories in the order given: the one
\* try block is around the whole loop, so the first exception ends it.
Sweep(dirs, order) ==
    IF order = << >> THEN dirs
    ELSE LET d == Head(order)
         IN  IF dirs[d].fault = "stat" THEN dirs
             ELSE IF ~dirs[d].old THEN Sweep(dirs, Tail(order))
             ELSE IF dirs[d].fault = "rmtree" THEN dirs
             ELSE Sweep([dirs EXCEPT ![d] = NoDir], Tail(order))

\* cleanup_old_job_files lines 441-457, run by the periodic cleanup_old_jobs.
cleanup_old_job_files(order) ==
    /\ order \in Orders({d \in JobDirs : storage[d].exists})
    /\ storage' = Sweep(storage, order)
    /\ UNCHANGED <<users, transactions, ret, jobs, tasks, req, pur, response,
                   webhooks, status_response, notifier, estimate,
                   limiter>>

\* ------------------------------------------------- RateLimiter (one key)
\* The server processes (uvicorn workers, settings.workers) that share the
\* Redis of rate_limiter; each makes one check_rate_limit call for the key.
Processes == {"p1", "p2", "p3"}

NoCall ==
    [pc |-> "idle", current_time |-> None, current_count |-> None,
     result |-> "None", raised |-> FALSE]

\* The key's sorted set holds one member per score: the member of a request
\* is str(current_time), its score current_time.  ttl is the time the key
\* expires at, None while it has no expiry.
NoLimiter ==
    [now |-> 0, zset |-> {}, ttl |-> None,
     calls |-> [p \in Processes |-> NoCall]]

\* A second passes; Redis deletes the key when its expiry is reached.
utcnow_tick ==
    /\ limiter.now < MaxClock
    /\ LET t == limiter.now + 1
           expired == limiter.ttl # None /\ t >= limiter.ttl
       IN  limiter' = [limiter EXCEPT
               !.now = t,
               !.zset = IF expired THEN {} ELSE @,
               !.ttl = IF expired THEN None ELSE @]
    /\ UNCHANGED <<users, transactions, ret, jobs, tasks, req, pur, response,
                   webhooks, status_response, notifier, estimate, storage>>

\* check_rate_limit lines 228-232 with a Redis client: the clock is read and
\* the entries with a score in [0, window_start] are removed.
check_rate_limit_zremrangebyscore(p) ==
    /\ limiter.calls[p].pc = "idle"
    /\ LET current_time == limiter.now
           window_start == current_time - WindowSeconds
       IN  limiter' = [limiter EXCEPT
               !.zset = {score \in @ : ~(0 <= score /\ score <= window_start)},
               !.calls[p].pc = "zcard",
               !.calls[p].current_time = current_time]
    /\ UNCHANGED <<users, transactions, ret, jobs, tasks, req, pur, response,
                   webhooks, status_response, notifier, estimate, storage>>

\* check_rate_limit lines 235-238: the entries are counted; at the limit
\* the call returns False.
check_rate_limit_zcard(p) ==
    /\ limiter.calls[p].pc = "zcard"
    /\ LET current_count == Cardinality(limiter.zset)
       IN  limiter' = [limiter EXCEPT
               !.calls[p].current_count = current_count,
               !.calls[p].pc =
                   IF current_count >= RateLimit THEN "returned" ELSE "zadd",
               !.calls[p].result =
                   IF current_count >= RateLimit THEN "False" ELSE @]
    /\ UNCHANGED <<users, transactions, ret, jobs, tasks, req, pur, response,
                   webhooks, status_response, notifier, estimate, storage>>

\* check_rate_limit line 241: the request is added under its timestamp.
check_rate_limit_zadd(p) ==
    /\ limiter.calls[p].pc = "zadd"
    /\ limiter' = [limiter EXCEPT
           !.zset = @ \cup {limiter.calls[p].current_time},
           !.calls[p].pc = "expire"]
    /\ UNCHANGED <<users, transactions, ret, jobs, tasks, req, pur, response,
                   webhooks, status_response, notifier, estimate, storage>>

\* check_rate_limit lines 242-244: the key's expiry is set and the call
\* returns True.
check_rate_limit_expire(p) ==
    /\ limiter.calls[p].pc = "expire"
    /\ limiter' = [limiter EXCEPT
           !.ttl = limiter.now + WindowSeconds,
           !.calls[p].pc = "returned",
           !.calls[p].result = "True"]
    /\ UNCHANGED <<users, transactions, ret, jobs, tasks, req, pur, response,
                   webhooks, status_response, notifier, estimate, storage>>

\* check_rate_limit lines 246-248: a Redis command of the call raises; the
\* call returns True.
check_rate_limit_except(p) ==
    /\ limiter.calls[p].pc \in {"idle", "zcard", "zadd", "expire"}
    /\ limiter' = [limiter EXCEPT
           !.calls[p].pc = "returned",
           !.calls[p].result = "True",
           !.calls[p].raised = TRUE]
    /\ UNCHANGED <<users, transactions, ret, jobs, tasks, req, pur, response,
                   webhooks, status_response, notifier, estimate, storage>>

Init ==
    /\ users = [u \in UserIds |-> NoUser]
    /\ transactions = << >>
    /\ ret = Call("none", "u1", 0, "none", FALSE)
    /\ jobs = [j \in JobIds |-> NoJob]
    /\ tasks = [j \in JobIds |-> NoTask]
    /\ req = [j \in JobIds |-> NoRequest]
    /\ pur = NoPurchase
    /\ response = [user_id |-> "u1", job_id |-> "j1", code |-> 0]
    /\ webhooks = [j \in JobIds |-> << >>]
    /\ status_response = NoStatusResponse
    /\ notifier = NoNotifier
    /\ estimate = NoEstimate
    /\ storage = [d \in JobDirs |-> NoDir]
    /\ limiter = NoLimiter

\* The whole service around one request: admission, cancel, the worker.
Next ==
    \/ create_test_user("u1", TestCredits)
    \/ \E n \in 1..MaxImages, cb \in BOOLEAN : process_images_load("j1", n, cb)
    \/ process_images_reserve("j1")
    \/ process_images_create_job("j1")
    \/ process_images_create_job_error("j1")
    \/ queue_processing_job("j1")
    \/ queue_processing_job_error("j1")
    \/ cancel_job(Requester("j1"), "j1")
    \/ process_images_task_begin("j1")
    \/ process_images_task_processing("j1")
    \/ process_images_task_progress("j1")
    \/ process_images_task_complete("j1")
    \/ process_images_task_notify("j1")
    \/ process_images_task_ack("j1")
    \/ process_images_task_except("j1")
    \/ process_images_task_time_limit("j1")
    \/ process_images_task_redeliver("j1")

Spec == Init /\ [][Next]_vars

\* The service of Spec with the notification tasks it schedules run too.
NotifyNext ==
    \/ Next
    \/ \E o \in Outcomes : send_webhook_notification("j1", o)

NotifySpec == Init /\ [][NotifyNext]_vars

\* The worker process is up: it takes a pending message off the queue and
\* runs the task's code to its next statement.  Nothing obliges an attempt
\* to raise, to be killed or to be redelivered.
FairSpec ==
    /\ Spec
    /\ WF_vars(process_images_task_begin("j1"))
    /\ WF_vars(process_images_task_processing("j1"))
    /\ WF_vars(process_images_task_progress("j1")
                   \/ process_images_task_complete("j1")
                   \/ process_images_task_notify("j1")
                   \/ process_images_task_ack("j1"))

\* Requests, a purchase and cancels racing on one account (no worker runs).
RaceNext ==
    \/ create_test_user("u1", TestCredits)
    \/ \E j \in JobIds, n \in 1..MaxImages : process_images_load(j, n, FALSE)
    \/ \E j \in JobIds : process_images_reserve(j)
    \/ \E j \in JobIds : process_images_create_job(j)
    \/ \E j \in JobIds : process_images_create_job_error(j)
    \/ \E j \in JobIds : queue_processing_job(j)
    \/ \E j \in JobIds : queue_processing_job_error(j)
    \/ \E j \in JobIds : cancel_job(Requester(j), j)
    \/ \E a \in 1..MaxAmount : add_credits_load("u1", a)
    \/ add_credits_commit("u1")

RaceSpec == Init /\ [][RaceNext]_vars

\* Two accounts and the requests of one of them: the other account reads and
\* cancels too; j2 is a job id no request creates.
AccessNext ==
    \/ \E u \in UserIds : create_test_user(u, TestCredits)
    \/ \E n \in 1..MaxImages : process_images_load("j1", n, FALSE)
    \/ process_images_reserve("j1")
    \/ process_images_create_job("j1")
    \/ process_images_create_job_error("j1")
    \/ queue_processing_job("j1")
    \/ queue_processing_job_error("j1")
    \/ \E u \in UserIds, j \in JobIds : cancel_job(u, j)
    \/ \E u \in UserIds, j \in JobIds : get_job_status(u, j)

AccessSpec == Init /\ [][AccessNext]_vars

\* calculate_cost on every operation, bucket, steps, guidance and count.
CostNext ==
    \E operation \in Operations, parameters \in ParameterChoices,
       image_count \in 1..MaxImages :
        calculate_cost_call(operation, parameters, image_count)

CostSpec == Init /\ [][CostNext]_vars

\* The job directories and the periodic retention sweep.
SweepNext ==
    \/ \E d \in JobDirs : mkdir(d)
    \/ \E d \in JobDirs, fault \in Faults : directory_ages(d, fault)
    \/ \E order \in AllOrders : cleanup_old_job_files(order)

SweepSpec == Init /\ [][SweepNext]_vars

LedgerNext ==
    \/ \E u \in UserIds, c \in CreditChoices : create_test_user(u, c)
    \/ \E u \in UserIds, a \in Amounts : check_and_reserve_credits(u, a)
    \/ \E u \in UserIds, a \in Amounts, j \in JobIds : refund_credits(u, a, j)
    \/ \E u \in UserIds, a \in Amounts : add_credits(u, a)

LedgerSpec == Init /\ [][LedgerNext]_vars

\* Concurrent check_rate_limit calls of the server processes on one key.
RateNext ==
    \/ utcnow_tick
    \/ \E p \in Processes : check_rate_limit_zremrangebyscore(p)
    \/ \E p \in Processes : check_rate_limit_zcard(p)
    \/ \E p \in Processes : check_rate_limit_zadd(p)
    \/ \E p \in Processes : check_rate_limit_expire(p)
    \/ \E p \in Processes : check_rate_limit_except(p)

RateSpec == Init /\ [][RateNext]_vars

\* ------------------------------------------------------ ledger: the claims
RECURSIVE SumAmounts(_, _, _)
\* The sum of the amounts of u's entries of one transaction type.
SumAmounts(txs, u, type) ==
    IF txs = << >> THEN 0
    ELSE (IF Head(txs).user_id = u /\ Head(txs).transaction_type = type
          THEN Head(txs).amount ELSE 0) + SumAmounts(Tail(txs), u, type)

EntriesOf(u, type) ==
    {i \in 1..Len(transactions) :
        /\ transactions[i].user_id = u
        /\ transactions[i].transaction_type = type}

\* C2 as stated: for every account, balance = total_purchased - total_used
\* + (sum of refund entry amounts) + (sum of bonus entry amounts).
C2_BalanceIdentityWithEntries ==
    \A u \in UserIds :
        users[u].credits_balance =
            users[u].total_credits_purchased - users[u].total_credits_used
            + SumAmounts(transactions, u, "refund")
            + SumAmounts(transactions, u, "bonus")

\* C2 amended: after any sequence of account creation, Reserve, Refund and
\* Purchase calls made one after another, balance = total_purchased -
\* total_used for every account (a refund is already taken out of total_used
\* and the initial bonus is already counted in total_purchased).
C2_BalanceIdentity ==
    \A u \in UserIds :
        users[u].credits_balance =
            users[u].total_credits_purchased - users[u].total_credits_used

\* An account created with credits that has a usage and a refund entry.
C2_Witness ==
    \E u \in UserIds :
        /\ users[u].exists
        /\ SumAmounts(transactions, u, "bonus") > 0
        /\ SumAmounts(transactions, u, "refund") > 0
        /\ EntriesOf(u, "usage") # {}

\* C3: Refund called twice for the same job credits the account once: at most
\* one refund entry per job ever exists.
C3_OneRefundPerJob ==
    \A j \in JobIds :
        Cardinality({i \in 1..Len(transactions) :
            /\ transactions[i].transaction_type = "refund"
            /\ transactions[i].description = j}) <= 1

\* C9: a Reserve of amount a on an account with balance b succeeds iff
\* a <= b; on success balance falls by a, total_used rises by a and exactly
\* one entry {amount -a, usage, balance_before b, balance_after b - a} is
\* appended; on failure nothing changes.
C9_ReserveContract ==
    [][(ret'.op = "reserve" /\ users[ret'.user_id].exists) =>
        LET u == ret'.user_id
            a == ret'.amount
            b == users[u].credits_balance
        IN  /\ ret'.ok <=> (a <= b)
            /\ ret'.ok =>
                /\ users'[u].credits_balance = b - a
                /\ users'[u].total_credits_used =
                       users[u].total_credits_used + a
                /\ users'[u].total_credits_purchased =
                       users[u].total_credits_purchased
                /\ Len(transactions') = Len(transactions) + 1
                /\ SubSeq(transactions', 1, Len(transactions)) = transactions
                /\ LET e == transactions'[Len(transactions')]
                   IN  /\ e.user_id = u
                       /\ e.amount = 0 - a
                       /\ e.transaction_type = "usage"
                       /\ e.balance_before = b
                       /\ e.balance_after = b - a
            /\ ~ret'.ok => UNCHANGED <<users, transactions>>
      ]_vars

\* Reserve(acct, 2) on balance 10: balance 8, entry {-2, usage, 10, 8}.
C9_Witness ==
    /\ ret.op = "reserve" /\ ret.ok /\ ret.amount = 2
    /\ users[ret.user_id].credits_balance = 8
    /\ Len(transactions) > 0
    /\ LET e == transactions[Len(transactions)]
       IN  /\ e.user_id = ret.user_id
           /\ e.amount = 0 - 2
           /\ e.transaction_type = "usage"
           /\ e.balance_before = 10
           /\ e.balance_after = 8

\* ----------------------------------------------------- service: the claims
Terminal == {"completed", "failed", "cancelled"}

UserTxs(u) == SelectSeq(transactions, LAMBDA t : t.user_id = u)

\* C1: N concurrent Reserve calls of amount a > 0 on an account of balance B
\* never drive the balance negative and at most floor(B / a) of them succeed
\* (B is what the account was created with; the case is that of a ledger
\* holding, besides the initial entry, only usage entries of one amount).
C1_NoOverspend ==
    \A u \in UserIds :
        LET usage == EntriesOf(u, "usage")
            B == SumAmounts(transactions, u, "bonus")
        IN  /\ users[u].credits_balance >= 0
            /\ \A a \in 1..(2 * MaxImages) :
                   ( /\ EntriesOf(u, "purchase") = {}
                     /\ EntriesOf(u, "refund") = {}
                     /\ \A i \in usage : transactions[i].amount = 0 - a )
                   => Cardinality(usage) <= B \div a

\* C4: every change of a job's status is one of queued->processing,
\* processing->completed, processing->failed, queued->failed,
\* queued->cancelled; nothing leaves completed, failed or cancelled.
C4_StatusPath ==
    [][\A j \in JobIds :
        (jobs[j].exists /\ jobs'[j].status # jobs[j].status) =>
            <<jobs[j].status, jobs'[j].status>> \in
                {<<"queued", "processing">>, <<"processing", "completed">>,
                 <<"processing", "failed">>, <<"queued", "failed">>,
                 <<"queued", "cancelled">>}
      ]_vars

\* C5: Cancel on a job whose status is processing returns an error and
\* leaves the job and the account's balance and ledger entries unchanged.
C5_CancelProcessingRejected ==
    [][\A j \in JobIds :
        ( /\ jobs[j].exists
          /\ jobs[j].status = "processing"
          /\ cancel_job(jobs[j].user_id, j) )
        => /\ response'.code # 200
           /\ UNCHANGED <<jobs, users, transactions>>
      ]_vars

\* C6: Cancel by the owner of a queued job sets the status to cancelled and
\* refunds credits_reserved: the balance is back to what it was before the
\* reservation and the ledger holds exactly one refund entry of that amount
\* for the job.
C6_CancelQueuedRefunds ==
    [][\A j \in JobIds :
        ( /\ jobs[j].exists
          /\ jobs[j].status = "queued"
          /\ cancel_job(jobs[j].user_id, j) )
        => /\ jobs'[j].status = "cancelled"
           /\ users'[jobs[j].user_id].credits_balance =
                  users[jobs[j].user_id].credits_balance + jobs[j].credits_used
           /\ Cardinality({i \in 1..Len(transactions') :
                  /\ transactions'[i].transaction_type = "refund"
                  /\ transactions'[i].description = j
                  /\ transactions'[i].amount = jobs[j].credits_used}) = 1
      ]_vars

\* C7: a progress update for a job that is already completed, failed or
\* cancelled is discarded: status and progress keep their terminal values.
C7_LateProgressDropped ==
    [][\A j \in JobIds :
        ( /\ jobs[j].exists
          /\ jobs[j].status \in Terminal
          /\ process_images_task_progress(j) )
        => /\ jobs'[j].status = jobs[j].status
           /\ jobs'[j].progress = jobs[j].progress
      ]_vars

\* C8: when admission is rejected because the estimated cost exceeds the
\* balance the request loaded, no job record is created, no task is enqueued
\* and the account's balance, total_used and ledger entries are unchanged,
\* then and for the rest of the request.
C8_RejectedAdmission ==
    [][\A j \in JobIds :
        /\ ( /\ req[j].pc = "loaded"
             /\ req[j].cost > req[j].seen.credits_balance
             /\ req'[j] # req[j] )
           => /\ req'[j].pc = "rejected"
              /\ UNCHANGED <<users, transactions, jobs, tasks>>
        /\ req[j].pc = "rejected"
           => /\ req'[j] = req[j]
              /\ ~jobs'[j].exists
              /\ tasks'[j].state = "none"
      ]_vars

\* A request rejected for insufficient credits beside an admitted one.
C8_Witness ==
    \E j, k \in JobIds :
        /\ req[j].pc = "rejected"
        /\ req[j].cost > req[j].seen.credits_balance
        /\ ~jobs[j].exists
        /\ jobs[k].exists

\* C10: replaying an account's entries in commit order reproduces the cached
\* balance: each balance_before is the previous entry's balance_after and
\* the last balance_after is the balance.
C10_LedgerReconciles ==
    \A u \in UserIds :
        LET txs == UserTxs(u)
        IN  /\ \A i \in 2..Len(txs) :
                   txs[i].balance_before = txs[i - 1].balance_after
            /\ Len(txs) > 0 =>
                   txs[Len(txs)].balance_after = users[u].credits_balance

\* C11: when enqueuing a job's task fails the job is moved to failed with a
\* non-empty error; and in every state a job whose status is queued either
\* has not been submitted yet (its request has not reached the enqueue) or
\* has its task pending or in flight (delivered and not acknowledged).
C11_QueuedHasTask ==
    [][\A j \in JobIds :
        /\ queue_processing_job_error(j) =>
              /\ jobs'[j].status = "failed"
              /\ jobs'[j].error_message # ""
        /\ (jobs'[j].exists /\ jobs'[j].status = "queued") =>
              \/ req'[j].pc = "created"
              \/ tasks'[j].state \in {"pending", "running"}
      ]_vars

\* C12: when a worker attempt fails while retries remain, the job record is
\* not written (the status stays processing) and no notification is
\* scheduled; only the failure of the last allowed attempt sets failed.
C12_RetryKeepsProcessing ==
    [][\A j \in JobIds :
        ( /\ jobs[j].status = "processing"
          /\ tasks[j].retries < max_retries
          /\ process_images_task_except(j) )
        => UNCHANGED <<jobs, webhooks, otherVars>>
      ]_vars

C14_ExhaustedStaysDebited ==
    \A j \in JobIds :
        tasks[j].state = "dead" =>
            LET u == jobs[j].user_id
                c == jobs[j].credits_used
            IN  /\ jobs[j].status = "failed"
                /\ jobs[j].error_message # ""
                /\ req[j].tx \in EntriesOf(u, "usage")
                /\ transactions[req[j].tx].amount = 0 - c
                /\ users[u].credits_balance =
                       SumAmounts(transactions, u, "bonus") - c
                /\ \A i \in EntriesOf(u, "refund") :
                       transactions[i].description # j

\* A job that reserved credits, failed on every attempt and was dropped.
C14_Witness ==
    \E j \in JobIds :
        /\ tasks[j].state = "dead"
        /\ tasks[j].failed = max_retries + 1
        /\ jobs[j].status = "failed"
        /\ jobs[j].credits_used > 0
        /\ users[jobs[j].user_id].credits_balance =
               TestCredits - jobs[j].credits_used

\* The "failed" notifications scheduled for job j.
FailedWebhooks(j) == SelectSeq(webhooks[j], LAMBDA w : w = "failed")

\* C15: for a job with a callback URL whose attempts all fail up to the cap,
\* the notifier is invoked exactly once for the job over the whole run, with
\* status failed: never a second "failed" notification, and once the task is
\* dropped the job's notifications are that single one.
C15_NotifiedOnce ==
    \A j \in JobIds :
        req[j].callback_url =>
            /\ Len(FailedWebhooks(j)) <= 1
            /\ tasks[j].state = "dead" => webhooks[j] = <<"failed">>

\* A step of the worker or of the broker on j's task.
WorkerStep(j) ==
    \/ process_images_task_begin(j)
    \/ process_images_task_processing(j)
    \/ process_images_task_progress(j)
    \/ process_images_task_complete(j)
    \/ process_images_task_notify(j)
    \/ process_images_task_ack(j)
    \/ process_images_task_except(j)
    \/ process_images_task_time_limit(j)
    \/ process_images_task_redeliver(j)

\* C16: the worker-side steps (mark processing, progress, complete, fail,
\* retry, redelivery) change no account's balance, total_used,
\* total_purchased or ledger entries; a job is debited once, at admission,
\* however many times its task runs: the ledger of a run with one job holds
\* one usage entry, the one its request inserted.
C16_WorkerLeavesLedger ==
    [][\A j \in JobIds :
        /\ WorkerStep(j) => UNCHANGED <<users, transactions>>
        /\ jobs'[j].exists =>
              {i \in 1..Len(transactions') :
                  transactions'[i].transaction_type = "usage"} = {req'[j].tx}
      ]_vars

\* A task that ran four times (two failures, a redelivery, then the run
\* that completed) for a job debited once.
C16_Witness ==
    \E j \in JobIds :
        /\ tasks[j].state = "acked"
        /\ tasks[j].failed = 2
        /\ tasks[j].redelivered = 1
        /\ jobs[j].status = "completed"
        /\ Cardinality(EntriesOf(jobs[j].user_id, "usage")) = 1
        /\ users[jobs[j].user_id].credits_balance =
               TestCredits - jobs[j].credits_used

\* C17: every job that enters processing eventually reaches completed or
\* failed when the worker and the queue are scheduled fairly, whether an
\* attempt raises, passes the soft time limit, is killed at the hard time
\* limit or its worker is lost before acknowledging.
C17_ProcessingEnds ==
    \A j \in JobIds :
        (jobs[j].exists /\ jobs[j].status = "processing")
            ~> (jobs[j].status \in {"completed", "failed"})

\* C18: no job is created or enqueued unless its reservation succeeded: for
\* every job the owner's ledger holds one usage entry for it (the one its
\* request inserted, shared with no other job), of amount minus the job's
\* credits_used, and that entry was committed before the job record was.
C18_JobHasReservation ==
    [][\A j \in JobIds :
        /\ (jobs'[j].exists \/ tasks'[j].state # "none") =>
              /\ jobs'[j].exists
              /\ req'[j].tx \in 1..Len(transactions')
              /\ transactions'[req'[j].tx].user_id = jobs'[j].user_id
              /\ transactions'[req'[j].tx].transaction_type = "usage"
              /\ transactions'[req'[j].tx].amount = 0 - jobs'[j].credits_used
              /\ \A k \in JobIds \ {j} :
                     jobs'[k].exists => req'[k].tx # req'[j].tx
        /\ (~jobs[j].exists /\ jobs'[j].exists) =>
              /\ req[j].tx \in 1..Len(transactions)
              /\ transactions[req[j].tx].amount = 0 - jobs'[j].credits_used
      ]_vars

\* Two jobs of one account, each with its own usage entry, one enqueued.
C18_Witness ==
    \E j, k \in JobIds :
        /\ j # k
        /\ jobs[j].exists /\ jobs[k].exists
        /\ tasks[j].state = "pending"
        /\ req[j].tx # req[k].tx
        /\ {req[j].tx, req[k].tx} = EntriesOf(jobs[j].user_id, "usage")

\* C19: no orphaned reservation: every usage entry debited at admission has
\* a job record funded by it; when create_job fails after the reservation
\* was committed the credits do not stay debited without a job (the entry
\* of a request that is over either funds its job or was refunded).
C19_NoOrphanedReservation ==
    \A j \in JobIds :
        (req[j].tx # 0 /\ req[j].pc # "reserved") =>
            \/ jobs[j].exists
            \/ \E i \in EntriesOf(Requester(j), "refund") :
                   /\ i > req[j].tx
                   /\ transactions[i].amount = req[j].cost

\* C20: for every account balance >= 0 in every state reached by Reserve,
\* Refund and Purchase calls made one after another with any integer
\* amounts, zero and negative ones included.
C20_BalanceNonNegative ==
    \A u \in UserIds : users[u].credits_balance >= 0

\* C21: a status read of a job id that exists but belongs to another account
\* returns exactly the NotFound response of a job id that does not exist:
\* with the echoed id taken out, both are the one response below.
C21_ForeignJobLooksMissing ==
    [][\A u \in UserIds, j \in JobIds :
        ( /\ get_job_status(u, j)
          /\ ~jobs[j].exists \/ jobs[j].user_id # u )
        => [status_response'.body EXCEPT !.details_job_id = ""] =
               [code |-> 404, error_code |-> "JOB_NOT_FOUND",
                message |-> "Job not found",
                details |-> "does not exist or you don't have access to it",
                details_job_id |-> ""]
      ]_vars

\* The other account read a job that exists and got the 404.
C21_Witness ==
    /\ status_response.user_id = "u2"
    /\ jobs[status_response.job_id].exists
    /\ jobs[status_response.job_id].user_id = "u1"
    /\ status_response.body.code = 404

\* C22: a notification delivery, whether the POST succeeds or fails
\* (transport error, timeout, non-2xx response), leaves every job record,
\* every account and the ledger unchanged and raises no error.
C22_NotifierChangesNothing ==
    [][\A j \in JobIds, o \in Outcomes :
        send_webhook_notification(j, o)
        => /\ UNCHANGED <<jobs, users, transactions, tasks, webhooks>>
           /\ ~notifier'.raised
      ]_vars

\* The notification of a completed job ran into a timeout.
C22_Witness ==
    /\ notifier.outcome = "timeout"
    /\ notifier.ran["j1"] = 1
    /\ webhooks["j1"] = <<"completed">>
    /\ jobs["j1"].status = "completed"

\* ------------------------------------------------ the estimate: the claims
Max(a, b) == IF a >= b THEN a ELSE b

\* The call's steps or guidance_scale is no number.
Malformed(e) ==
    e.parameters.steps = None \/ e.parameters.guidance_scale = None

\* The call is on an operation and bucket of the configured cost table.
InTable(e) ==
    \/ e.operation = "enhance" /\ e.parameters.quality \in {"low", "medium", "high"}
    \/ e.operation = "upscale" /\ e.parameters.upscale_factor \in {2, 4}

\* The table cost of a call that is in the table.
TableCost(e) ==
    IF e.operation = "enhance"
    THEN credit_costs["enhance_" \o e.parameters.quality]
    ELSE IF e.parameters.upscale_factor = 2
    THEN credit_costs["upscale_2x"] ELSE credit_costs["upscale_4x"]

\* A per-unit base cost after the multipliers, rounded down after each.
PerUnit(base, e) ==
    LET stepped == IF e.parameters.steps > 50 THEN (base * 3) \div 2 ELSE base
    IN  IF e.parameters.guidance_scale > 150
        THEN (stepped * 6) \div 5 ELSE stepped

\* C23 as stated: on the cost table the estimate is
\* max(n, floor(base * m_steps * m_guidance * n)), rounded down once, after
\* the multiplication by the unit count n.
C23_RoundedOnce ==
    (estimate.called /\ InTable(estimate) /\ ~Malformed(estimate)) =>
        LET n == estimate.image_count
            num == (IF estimate.parameters.steps > 50 THEN 3 ELSE 1)
                   * (IF estimate.parameters.guidance_scale > 150 THEN 6 ELSE 1)
            den == (IF estimate.parameters.steps > 50 THEN 2 ELSE 1)
                   * (IF estimate.parameters.guidance_scale > 150 THEN 5 ELSE 1)
        IN  estimate.total_cost =
                Max(n, (TableCost(estimate) * num * n) \div den)

\* C23 amended: on the cost table the estimate is
\* floor(floor(base * m_steps) * m_guidance) * n: the per-unit cost is
\* rounded down after each multiplier, before the multiplication by the unit
\* count n; the result is at least 1 credit per unit.
C23_RoundedPerUnit ==
    (estimate.called /\ InTable(estimate) /\ ~Malformed(estimate)) =>
        /\ estimate.total_cost =
               PerUnit(TableCost(estimate), estimate) * estimate.image_count
        /\ estimate.total_cost >= estimate.image_count

\* enhance, quality low (1 credit), 51 steps, 2 images: 2 credits, not 3.
C23_Witness ==
    /\ estimate.called
    /\ estimate.operation = "enhance"
    /\ estimate.parameters.quality = "low"
    /\ estimate.parameters.steps = 51
    /\ estimate.parameters.guidance_scale = 75
    /\ estimate.image_count = 2
    /\ estimate.total_cost = 2

\* C24 as stated: the estimate never raises, and whenever the lookup fails
\* (unknown operation, quality or upscale factor, malformed parameters) it
\* is the one fallback, 2 credits times the unit count.
C24_OneFallback ==
    estimate.called =>
        /\ estimate.total_cost \in Nat
        /\ (~InTable(estimate) \/ Malformed(estimate)) =>
              estimate.total_cost = 2 * estimate.image_count

\* C24 amended: the estimate never raises and is at least 1 credit per
\* unit; with malformed steps or guidance it is 2 credits times the unit
\* count; otherwise an unknown quality or upscale factor has the per-unit
\* base cost 2 and an unknown operation the per-unit base cost 1, to which
\* the steps and guidance multipliers apply as to a table cost.
C24_Fallbacks ==
    estimate.called =>
        LET n == estimate.image_count
        IN  /\ estimate.total_cost \in Nat
            /\ estimate.total_cost >= n
            /\ Malformed(estimate) => estimate.total_cost = 2 * n
            /\ ( /\ ~Malformed(estimate)
                  /\ estimate.operation \notin {"enhance", "upscale"} )
               => estimate.total_cost = PerUnit(1, estimate) * n
            /\ ( /\ ~Malformed(estimate)
                  /\ estimate.operation \in {"enhance", "upscale"}
                  /\ ~InTable(estimate) )
               => estimate.total_cost = PerUnit(2, estimate) * n

\* An operation outside the table, 2 images: 2 credits, 1 per unit.
C24_Witness ==
    /\ estimate.called
    /\ estimate.operation = "denoise"
    /\ ~Malformed(estimate)
    /\ estimate.parameters.steps = 20
    /\ estimate.image_count = 2
    /\ estimate.total_cost = 2

\* ------------------------------------------------- the sweep: the claim
\* C25: in one retention sweep a failure while inspecting or deleting one
\* directory does not stop the sweep: every other directory older than the
\* retention window is deleted in that same sweep.
C25_SweepSkipsBadDirectory ==
    [][\A order \in AllOrders :
        cleanup_old_job_files(order) =>
            \A d \in JobDirs :
                (storage[d].exists /\ storage[d].old /\ storage[d].fault = "none")
                => ~storage'[d].exists
      ]_vars

\* ------------------------------------------- the job record: the claims
\* C26: after a Cancel of a queued job returned success the job never runs:
\* whatever the delivery of its enqueued task does, the status stays
\* cancelled and no outputs are attached.  (A cancelled job whose started_at
\* is not set was cancelled while queued; its task is in the broker or
\* delivered.)
C26_CancelledNeverRuns ==
    [][\A j \in JobIds :
        ( /\ jobs[j].exists
          /\ jobs[j].status = "cancelled"
          /\ jobs[j].started_at = 0
          /\ tasks[j].state \in {"pending", "running"} )
        => /\ jobs'[j].status = "cancelled"
           /\ jobs'[j].output_images = 0
      ]_vars

\* C27: a task delivered again for a job that is already completed (the
\* worker was lost after completing and before acknowledging) changes
\* neither the job's status, progress, outputs and completed_at nor the
\* notifications scheduled for it.
C27_RedeliveryAfterCompleted ==
    [][\A j \in JobIds :
        ( /\ jobs[j].exists
          /\ jobs[j].status = "completed"
          /\ \/ tasks[j].state = "pending"
             \/ tasks[j].state = "running" /\ tasks[j].step = "begin" )
        => /\ jobs'[j].status = jobs[j].status
           /\ jobs'[j].progress = jobs[j].progress
           /\ jobs'[j].output_images = jobs[j].output_images
           /\ jobs'[j].completed_at = jobs[j].completed_at
           /\ webhooks'[j] = webhooks[j]
      ]_vars

\* C28: in every state a completed job has progress 100, a completed_at
\* timestamp and its outputs attached.
C28_CompletedJob ==
    \A j \in JobIds :
        (jobs[j].exists /\ jobs[j].status = "completed") =>
            /\ jobs[j].progress = 100
            /\ jobs[j].completed_at # 0
            /\ jobs[j].output_images = req[j].image_count
            /\ jobs[j].output_images > 0

\* A job of two images completed by a retry.
C28_Witness ==
    \E j \in JobIds :
        /\ jobs[j].exists /\ jobs[j].status = "completed"
        /\ jobs[j].output_images = 2
        /\ tasks[j].retries = 1

\* C29: in every state a failed job has a non-empty error message and a
\* completed_at timestamp, whether the enqueue or a worker attempt failed.
C29_FailedJob ==
    \A j \in JobIds :
        (jobs[j].exists /\ jobs[j].status = "failed") =>
            /\ jobs[j].error_message # ""
            /\ jobs[j].completed_at # 0

\* A job failed at the enqueue: no task was ever published for it.
C29_Witness ==
    \E j \in JobIds :
        /\ jobs[j].exists /\ jobs[j].status = "failed"
        /\ jobs[j].error_message = "Failed to queue job"
        /\ tasks[j].state = "none"

\* C30: marking a job processing is idempotent: started_at is set by the
\* first call and never changes afterwards, and a call on a job that is
\* already processing leaves status, progress and started_at unchanged.
C30_MarkProcessingIdempotent ==
    [][\A j \in JobIds :
        /\ jobs[j].started_at # 0 => jobs'[j].started_at = jobs[j].started_at
        /\ ( /\ jobs[j].status = "processing"
              /\ process_images_task_processing(j) )
           => /\ jobs'[j].status = jobs[j].status
              /\ jobs'[j].progress = jobs[j].progress
              /\ jobs'[j].started_at = jobs[j].started_at
      ]_vars

\* C31: the status carried by any notification sent for a job is the job's
\* final status: once the task is over (returned, or dropped with its retries
\* used up) every notification scheduled for the job carries the status the
\* job has, so no "failed" one was sent for a job that ends completed.
C31_NotificationIsFinalStatus ==
    \A j \in JobIds :
        tasks[j].state \in {"acked", "dead"} =>
            \A i \in 1..Len(webhooks[j]) : webhooks[j][i] = jobs[j].status

\* C32: in every state a job whose status is queued or processing has no
\* completed_at timestamp.
C32_NoCompletedAtBeforeTerminal ==
    \A j \in JobIds :
        (jobs[j].exists /\ jobs[j].status \in {"queued", "processing"}) =>
            jobs[j].completed_at = 0

\* C33: while a job is not terminal its stored progress never decreases and
\* stays within 0..100, across progress updates, retries and redeliveries.
C33_ProgressMonotone ==
    [][\A j \in JobIds :
        ( /\ jobs[j].exists
          /\ jobs[j].status \notin Terminal
          /\ jobs'[j].status \notin Terminal )
        => /\ jobs'[j].progress >= jobs[j].progress
           /\ jobs'[j].progress \in 0..100
      ]_vars

\* ------------------------------------------- the accounts: more claims
\* C34: for every account total_used >= 0 and the sum of its refund entry
\* amounts never exceeds the sum of its usage debits, after any sequence of
\* Reserve and Refund calls (the case is that of calls with positive
\* amounts: usage entries below zero, refund entries above, no purchase).
C34_RefundsWithinUsage ==
    \A u \in UserIds :
        ( /\ users[u].exists
          /\ EntriesOf(u, "purchase") = {}
          /\ \A i \in EntriesOf(u, "usage") : transactions[i].amount < 0
          /\ \A i \in EntriesOf(u, "refund") : transactions[i].amount > 0 )
        => /\ users[u].total_credits_used >= 0
           /\ SumAmounts(transactions, u, "refund")
                  <= 0 - SumAmounts(transactions, u, "usage")

\* C35: a Reserve, Refund or Purchase on one account leaves every other
\* account's row and ledger entries unchanged, and a failed Reserve
\* (insufficient credits or unknown account) leaves all accounts and the
\* ledger unchanged.
C35_OtherAccountsUntouched ==
    [][ret'.op \in {"reserve", "refund", "purchase"} =>
        /\ \A v \in UserIds \ {ret'.user_id} :
               /\ users'[v] = users[v]
               /\ SelectSeq(transactions', LAMBDA t : t.user_id = v) = UserTxs(v)
        /\ (ret'.op = "reserve" /\ ~ret'.ok) => UNCHANGED <<users, transactions>>
      ]_vars

\* A purchase on u1 was committed beside u2, whose row is as created.
C35_Witness ==
    /\ ret.op = "purchase" /\ ret.ok /\ ret.user_id = "u1" /\ ret.amount > 0
    /\ users["u1"].total_credits_purchased = MaxCredits + ret.amount
    /\ users["u2"].exists
    /\ users["u2"].credits_balance = MaxCredits
    /\ users["u2"].total_credits_purchased = MaxCredits
    /\ Len(UserTxs("u2")) = 1

\* C36: a Cancel by an account that does not own the job returns NotFound
\* and leaves the job's record and every account's row and ledger entries
\* unchanged.
C36_CancelByNonOwner ==
    [][\A u \in UserIds, j \in JobIds :
        ( /\ jobs[j].exists
          /\ jobs[j].user_id # u
          /\ cancel_job(u, j) )
        => /\ response'.code = 404
           /\ UNCHANGED <<jobs, users, transactions, tasks>>
      ]_vars

\* The other account's Cancel of a queued, enqueued job got the 404: the job
\* is still queued and the owner's account is as the reservation left it.
C36_Witness ==
    /\ response.user_id = "u2" /\ response.code = 404
    /\ response.job_id = "j1"
    /\ jobs["j1"].exists /\ jobs["j1"].user_id = "u1"
    /\ jobs["j1"].status = "queued"
    /\ tasks["j1"].state = "pending"
    /\ users["u1"].credits_balance = TestCredits - jobs["j1"].credits_used
    /\ users["u2"].credits_balance = TestCredits

\* ------------------------------------------- the rate limiter: the claim
\* The calls that returned True without a Redis error.
Admitted ==
    {p \in Processes :
        limiter.calls[p].result = "True" /\ ~limiter.calls[p].raised}

\* C37: with a Redis client, check_rate_limit admits at most `limit` requests
\* of one key within any window of window_seconds, in every interleaving of
\* concurrent calls.  Stated for the runs where no Redis command raised and
\* the admitted requests have different timestamps.
C37_AtMostLimitPerWindow ==
    ( /\ \A p \in Processes : ~limiter.calls[p].raised
      /\ \A p, q \in Admitted :
            p # q => limiter.calls[p].current_time # limiter.calls[q].current_time )
    => \A t \in 0..MaxClock :
          Cardinality({p \in Admitted :
              /\ limiter.calls[p].current_time > t - WindowSeconds
              /\ limiter.calls[p].current_time <= t}) <= RateLimit
====
